---- MODULE Spec2Model ----
(***************************************************************************)
(* Wire gauge voltage drop calculator (src/src/main.rs).                   *)
(*                                                                         *)
(* main() is one sequential pass: validate the --gauges list, walk         *)
(* WIRE_GAUGES computing the voltage drop of every considered gauge, then  *)
(* print the parameters, the table and a recommendation or a warning.      *)
(*                                                                         *)
(* f64 values are modelled as IEEE-754 extended reals: a class (finite,    *)
(* infinite, NaN), a sign bit (zero is signed) and, for finite values, the *)
(* magnitude as a reduced fraction num/den.  Multiplication, division and  *)
(* comparison follow the IEEE rules for signs, zeros, infinities and NaN;  *)
(* the magnitude of a finite result is the exact quotient or product (the  *)
(* rounding to 53 bits is below the resolution of every comparison made    *)
(* here and is not represented).                                           *)
(***************************************************************************)
EXTENDS Integers, Sequences, FiniteSets

\* ------------------------------------------------------------------ f64

RECURSIVE GCD(_, _)
GCD(a, b) == IF b = 0 THEN a ELSE GCD(b, a % b)

\* A finite f64 with sign bit neg and magnitude n/d, reduced.
Fin(neg, n, d) ==
    LET g == GCD(n, d)
    IN  [cls |-> "fin", neg |-> neg, num |-> n \div g, den |-> d \div g]

Inf(neg) == [cls |-> "inf", neg |-> neg, num |-> 0, den |-> 1]

NaN == [cls |-> "nan", neg |-> FALSE, num |-> 0, den |-> 1]

\* A decimal literal of the source, n/d >= 0 (1.588 is Lit(1588, 1000)).
Lit(n, d) == Fin(FALSE, n, d)

IsZero(a) == a.cls = "fin" /\ a.num = 0

\* a * b
FMul(a, b) ==
    IF a.cls = "nan" \/ b.cls = "nan" THEN NaN
    ELSE IF a.cls = "inf" \/ b.cls = "inf"
         THEN IF IsZero(a) \/ IsZero(b) THEN NaN ELSE Inf(a.neg # b.neg)
    ELSE Fin(a.neg # b.neg, a.num * b.num, a.den * b.den)

\* a / b
FDiv(a, b) ==
    IF a.cls = "nan" \/ b.cls = "nan" THEN NaN
    ELSE IF a.cls = "inf"
         THEN IF b.cls = "inf" THEN NaN ELSE Inf(a.neg # b.neg)
    ELSE IF b.cls = "inf" THEN Fin(a.neg # b.neg, 0, 1)
    ELSE IF IsZero(b)
         THEN IF IsZero(a) THEN NaN ELSE Inf(a.neg # b.neg)
    ELSE Fin(a.neg # b.neg, a.num * b.den, a.den * b.num)

\* The sign of a non-NaN value: -1, 0 or 1 (both zeros have sign 0).
Sgn(a) == IF IsZero(a) THEN 0 ELSE IF a.neg THEN -1 ELSE 1

\* a <= b: false when either side is NaN.
FLe(a, b) ==
    IF a.cls = "nan" \/ b.cls = "nan" THEN FALSE
    ELSE IF Sgn(a) # Sgn(b) THEN Sgn(a) < Sgn(b)
    ELSE IF Sgn(a) = 0 THEN TRUE
    ELSE IF a.cls = "inf" \/ b.cls = "inf"
         THEN IF a.cls = b.cls THEN TRUE
              ELSE IF a.neg THEN a.cls = "inf" ELSE b.cls = "inf"
    ELSE IF a.neg THEN b.num * a.den <= a.num * b.den
                  ELSE a.num * b.den <= b.num * a.den

Pow10(k) == IF k = 2 THEN 100 ELSE IF k = 3 THEN 1000 ELSE 10000

\* format!("{:.k}", a): the decimal with k fractional digits nearest to a,
\* ties to even, as a signed count of units of 10^-k; "inf" and "NaN" for
\* the non-finite values.
Fmt(a, k) ==
    IF a.cls = "nan" THEN [text |-> "NaN", neg |-> FALSE, units |-> 0]
    ELSE IF a.cls = "inf" THEN [text |-> "inf", neg |-> a.neg, units |-> 0]
    ELSE LET scaled == a.num * Pow10(k)
             q      == scaled \div a.den
             r2     == 2 * (scaled % a.den)
             up     == r2 > a.den \/ (r2 = a.den /\ q % 2 = 1)
         IN  [text |-> "num", neg |-> a.neg, units |-> IF up THEN q + 1 ELSE q]

\* ---------------------------------------------------------- gauge table

\* Mutant: the resistance of 10 AWG is mistyped as 9.99.
WIRE_GAUGES_Typo == <<
    [num |-> 28, name |-> "28 AWG",   res |-> Lit(6490, 100)],
    [num |-> 26, name |-> "26 AWG",   res |-> Lit(4081, 100)],
    [num |-> 24, name |-> "24 AWG",   res |-> Lit(2567, 100)],
    [num |-> 22, name |-> "22 AWG",   res |-> Lit(1614, 100)],
    [num |-> 20, name |-> "20 AWG",   res |-> Lit(1015, 100)],
    [num |-> 18, name |-> "18 AWG",   res |-> Lit(6385, 1000)],
    [num |-> 16, name |-> "16 AWG",   res |-> Lit(4016, 1000)],
    [num |-> 14, name |-> "14 AWG",   res |-> Lit(251, 100)],
    [num |-> 12, name |-> "12 AWG",   res |-> Lit(1588, 1000)],
    [num |-> 10, name |-> "10 AWG",   res |-> Lit(999, 100)],
    [num |-> 8,  name |-> "8 AWG",    res |-> Lit(628, 1000)],
    [num |-> 6,  name |-> "6 AWG",    res |-> Lit(395, 1000)],
    [num |-> 4,  name |-> "4 AWG",    res |-> Lit(248, 1000)],
    [num |-> 2,  name |-> "2 AWG",    res |-> Lit(156, 1000)],
    [num |-> 1,  name |-> "1 AWG",    res |-> Lit(123, 1000)],
    [num |-> 0,  name |-> "0 AWG",    res |-> Lit(983, 10000)],
    [num |-> -2, name |-> "00 AWG",   res |-> Lit(780, 10000)],
    [num |-> -3, name |-> "000 AWG",  res |-> Lit(619, 10000)],
    [num |-> -4, name |-> "0000 AWG", res |-> Lit(491, 10000)] >>

\* (gauge_number, display_name, resistance in ohms per 1000 feet)
WIRE_GAUGES == <<
    [num |-> 28, name |-> "28 AWG",   res |-> Lit(6490, 100)],
    [num |-> 26, name |-> "26 AWG",   res |-> Lit(4081, 100)],
    [num |-> 24, name |-> "24 AWG",   res |-> Lit(2567, 100)],
    [num |-> 22, name |-> "22 AWG",   res |-> Lit(1614, 100)],
    [num |-> 20, name |-> "20 AWG",   res |-> Lit(1015, 100)],
    [num |-> 18, name |-> "18 AWG",   res |-> Lit(6385, 1000)],
    [num |-> 16, name |-> "16 AWG",   res |-> Lit(4016, 1000)],
    [num |-> 14, name |-> "14 AWG",   res |-> Lit(251, 100)],
    [num |-> 12, name |-> "12 AWG",   res |-> Lit(1588, 1000)],
    [num |-> 10, name |-> "10 AWG",   res |-> Lit(999, 1000)],
    [num |-> 8,  name |-> "8 AWG",    res |-> Lit(628, 1000)],
    [num |-> 6,  name |-> "6 AWG",    res |-> Lit(395, 1000)],
    [num |-> 4,  name |-> "4 AWG",    res |-> Lit(248, 1000)],
    [num |-> 2,  name |-> "2 AWG",    res |-> Lit(156, 1000)],
    [num |-> 1,  name |-> "1 AWG",    res |-> Lit(123, 1000)],
    [num |-> 0,  name |-> "0 AWG",    res |-> Lit(983, 10000)],
    [num |-> -2, name |-> "00 AWG",   res |-> Lit(780, 10000)],
    [num |-> -3, name |-> "000 AWG",  res |-> Lit(619, 10000)],
    [num |-> -4, name |-> "0000 AWG", res |-> Lit(491, 10000)] >>

NumGauges == Len(WIRE_GAUGES)

\* Vec::contains
Contains(list, g) == \E k \in 1..Len(list) : list[k] = g

\* WIRE_GAUGES.iter().map(|(num, _, _)| *num).collect()
valid_gauges == [k \in 1..NumGauges |-> WIRE_GAUGES[k].num]

\* The list printed with the error: valid_gauges.iter().filter(|&&g| g > 0)
PositiveGauges == SelectSeq(valid_gauges, LAMBDA g : g > 0)

\* Mutant: any positive number is taken for a gauge of the table.
IsValidGauge_AnyPositive(g) == g > 0

\* valid_gauges.contains(gauge)
IsValidGauge(g) == Contains(valid_gauges, g)

\* Mutant: the filter is ignored.
Considered_NoFilter(gauges, g) == TRUE

\* Mutant: only the first requested identifier is looked at.
Considered_FirstOnly(gauges, g) ==
    IF gauges.some THEN gauges.list[1] = g ELSE TRUE

\* The filter of the main loop: a gauge is skipped when a filter is given
\* and does not contain it.
Considered(gauges, g) == ~gauges.some \/ Contains(gauges.list, g)

\* ------------------------------------------------------- the calculation

\* Mutant: the one-way distance is used as the length of the run.
TotalDistance_OneWay(distance) == distance

TotalDistance(distance) == FMul(distance, Lit(2, 1))

TotalResistance(resistance_per_1000, total_dist) ==
    FDiv(FMul(resistance_per_1000, total_dist), Lit(1000, 1))

VoltageDrop(current, total_resistance) == FMul(current, total_resistance)

\* Mutant: the quotient is taken the wrong way round.
DropPercentage_Inverted(voltage_drop, voltage) ==
    FMul(FDiv(voltage, voltage_drop), Lit(100, 1))

DropPercentage(voltage_drop, voltage) ==
    FMul(FDiv(voltage_drop, voltage), Lit(100, 1))

\* Mutant: the comparison is strict.
Passes_Strict(drop_percentage, max_drop) ==
    FLe(drop_percentage, max_drop) /\ ~FLe(max_drop, drop_percentage)

\* if drop_percentage <= args.max_drop
Passes(drop_percentage, max_drop) == FLe(drop_percentage, max_drop)

\* Option<(&str, f64, f64)>
NoRecommendation == [some |-> FALSE, name |-> "", drop |-> NaN, pct |-> NaN]

\* Mutant: every passing gauge replaces the recommendation.
Recommend_Overwrite(rec, name, drop, pct) ==
    [some |-> TRUE, name |-> name, drop |-> drop, pct |-> pct]

\* Mutant: the test is is_some() instead of is_none().
Recommend_IfSome(rec, name, drop, pct) ==
    IF rec.some THEN [some |-> TRUE, name |-> name, drop |-> drop, pct |-> pct]
    ELSE rec

\* if recommended.is_none() { recommended = Some(...) }
Recommend(rec, name, drop, pct) ==
    IF ~rec.some THEN [some |-> TRUE, name |-> name, drop |-> drop, pct |-> pct]
    ELSE rec

\* ----------------------------------------------------------------- inputs

MaxFilterLen == 3

FilterIds == {14, 12, 10, 99}

RECURSIVE SeqsUpTo(_, _)
SeqsUpTo(S, n) ==
    IF n = 0 THEN {<< >>}
    ELSE LET shorter == SeqsUpTo(S, n - 1)
         IN  shorter \cup {Append(s, x) : s \in {t \in shorter : Len(t) = n - 1}, x \in S}

\* Option<Vec<i32>>: absent, or a list of at least one identifier.
GaugeFilters ==
    {[some |-> FALSE, list |-> << >>]}
    \cup {[some |-> TRUE, list |-> s] : s \in SeqsUpTo(FilterIds, MaxFilterLen) \ {<< >>}}

Voltages == {Lit(120, 1), Lit(12, 1), Lit(0, 1), Fin(TRUE, 12, 1)}

Currents == {Lit(20, 1), Lit(0, 1), Fin(TRUE, 5, 1)}

Distances == {Lit(50, 1), Inf(FALSE)}

MaxDrops == {Lit(3, 1), Lit(0, 1)}

ArgsSet ==
    [voltage : Voltages, current : Currents, distance : Distances,
     max_drop : MaxDrops, gauges : GaugeFilters]

\* ------------------------------------------------------------------ state

VARIABLES
    args,           \* the parsed command line
    pc,             \* position in main
    vi,             \* index of the validation loop in requested_gauges
    gi,             \* index of the main loop in WIRE_GAUGES
    total_distance, \* let total_distance
    table,          \* the rows added to the prettytable, header excluded
    recommended,    \* let mut recommended
    stdout,         \* what has been printed to standard output
    stderr,         \* what has been printed to standard error
    exit_code       \* -1 while running

vars == <<args, pc, vi, gi, total_distance, table, recommended, stdout, stderr, exit_code>>

Init ==
    /\ args \in ArgsSet
    /\ pc = "validate"
    /\ vi = 1
    /\ gi = 1
    /\ total_distance = NaN
    /\ table = << >>
    /\ recommended = NoRecommendation
    /\ stdout = << >>
    /\ stderr = << >>
    /\ exit_code = -1

\* No --gauges argument: the validation block is skipped.
ValidateNone ==
    /\ pc = "validate"
    /\ ~args.gauges.some
    /\ pc' = "compute"
    /\ UNCHANGED <<args, vi, gi, total_distance, table, recommended, stdout, stderr, exit_code>>

\* One iteration of the validation loop on a gauge of the table.
ValidateGaugeOk ==
    /\ pc = "validate"
    /\ args.gauges.some
    /\ vi <= Len(args.gauges.list)
    /\ IsValidGauge(args.gauges.list[vi])
    /\ vi' = vi + 1
    /\ UNCHANGED <<args, pc, gi, total_distance, table, recommended, stdout, stderr, exit_code>>

\* One iteration of the validation loop on an unknown gauge: error, exit(1).
ValidateGaugeInvalid ==
    /\ pc = "validate"
    /\ args.gauges.some
    /\ vi <= Len(args.gauges.list)
    /\ ~IsValidGauge(args.gauges.list[vi])
    /\ stderr' = Append(stderr, [gauge |-> args.gauges.list[vi], valid |-> PositiveGauges])
    /\ exit_code' = 1
    /\ pc' = "exited"
    /\ UNCHANGED <<args, vi, gi, total_distance, table, recommended, stdout>>

\* The validation loop ran through the whole list.
ValidateDone ==
    /\ pc = "validate"
    /\ args.gauges.some
    /\ vi > Len(args.gauges.list)
    /\ pc' = "compute"
    /\ UNCHANGED <<args, vi, gi, total_distance, table, recommended, stdout, stderr, exit_code>>

\* total_distance, the table with its header row, recommended = None.
CreateTable ==
    /\ pc = "compute"
    /\ total_distance' = TotalDistance(args.distance)
    /\ table' = << >>
    /\ recommended' = NoRecommendation
    /\ gi' = 1
    /\ pc' = "loop"
    /\ UNCHANGED <<args, vi, stdout, stderr, exit_code>>

\* A gauge the filter leaves out: continue.
LoopSkip ==
    /\ pc = "loop"
    /\ gi <= NumGauges
    /\ ~Considered(args.gauges, WIRE_GAUGES[gi].num)
    /\ gi' = gi + 1
    /\ UNCHANGED <<args, pc, vi, total_distance, table, recommended, stdout, stderr, exit_code>>

\* A considered gauge: compute, decide the status, add the row.
LoopRow ==
    /\ pc = "loop"
    /\ gi <= NumGauges
    /\ Considered(args.gauges, WIRE_GAUGES[gi].num)
    /\ LET g                == WIRE_GAUGES[gi]
           total_resistance == TotalResistance(g.res, total_distance)
           voltage_drop     == VoltageDrop(args.current, total_resistance)
           drop_percentage  == DropPercentage(voltage_drop, args.voltage)
           ok               == Passes(drop_percentage, args.max_drop)
       IN  /\ recommended' =
                 IF ok THEN Recommend(recommended, g.name, voltage_drop, drop_percentage)
                 ELSE recommended
           /\ table' = Append(table,
                 [name       |-> g.name,
                  resistance |-> Fmt(total_resistance, 4),
                  drop       |-> Fmt(voltage_drop, 3),
                  pct        |-> Fmt(drop_percentage, 2),
                  status     |-> IF ok THEN "OK" ELSE "Too much drop"])
    /\ gi' = gi + 1
    /\ UNCHANGED <<args, pc, vi, total_distance, stdout, stderr, exit_code>>

\* The loop is over.
LoopEnd ==
    /\ pc = "loop"
    /\ gi > NumGauges
    /\ pc' = "print_params"
    /\ UNCHANGED <<args, vi, gi, total_distance, table, recommended, stdout, stderr, exit_code>>

\* The banner and the input parameters, with the filter when there is one.
PrintParams ==
    /\ pc = "print_params"
    /\ stdout' = stdout \o
          << [kind |-> "banner"],
             [kind |-> "params", voltage |-> args.voltage, current |-> args.current,
              distance |-> args.distance, max_drop |-> args.max_drop] >>
          \o (IF args.gauges.some
              THEN << [kind |-> "filtered", gauges |-> args.gauges.list] >>
              ELSE << >>)
    /\ pc' = "print_table"
    /\ UNCHANGED <<args, vi, gi, total_distance, table, recommended, stderr, exit_code>>

\* table.printstd()
PrintTable ==
    /\ pc = "print_table"
    /\ stdout' = Append(stdout, [kind |-> "table", rows |-> table])
    /\ pc' = "print_summary"
    /\ UNCHANGED <<args, vi, gi, total_distance, table, recommended, stderr, exit_code>>

\* if let Some(...) = recommended: the recommendation; main returns.
PrintRecommended ==
    /\ pc = "print_summary"
    /\ recommended.some
    /\ stdout' = Append(stdout,
          [kind |-> "recommended", gauge |-> recommended.name,
           drop |-> Fmt(recommended.drop, 3), pct |-> Fmt(recommended.pct, 2)])
    /\ exit_code' = 0
    /\ pc' = "done"
    /\ UNCHANGED <<args, vi, gi, total_distance, table, recommended, stderr>>

\* else: the warning; main returns.
PrintWarning ==
    /\ pc = "print_summary"
    /\ ~recommended.some
    /\ stdout' = Append(stdout, [kind |-> "warning"])
    /\ exit_code' = 0
    /\ pc' = "done"
    /\ UNCHANGED <<args, vi, gi, total_distance, table, recommended, stderr>>

Next ==
    \/ ValidateNone
    \/ ValidateGaugeOk
    \/ ValidateGaugeInvalid
    \/ ValidateDone
    \/ CreateTable
    \/ LoopSkip
    \/ LoopRow
    \/ LoopEnd
    \/ PrintParams
    \/ PrintTable
    \/ PrintRecommended
    \/ PrintWarning

Spec == Init /\ [][Next]_vars

\* ------------------------------------------------- what the claims speak of

\* The positions of main from the main loop on: validation has passed.
Validated == pc \in {"loop", "print_params", "print_table", "print_summary", "done"}

\* The positions of main after the main loop.
LoopOver == pc \in {"print_params", "print_table", "print_summary", "done"}

\* The table indices of the gauges the report considers.
ConsideredIdx == {k \in 1..NumGauges : Considered(args.gauges, WIRE_GAUGES[k].num)}

\* The table index of the gauge of the r-th row.
RowIdx(r) == CHOOSE k \in ConsideredIdx : Cardinality({m \in ConsideredIdx : m <= k}) = r

\* The drop percentage main computes for the k-th gauge of the table.
DropOf(k) ==
    DropPercentage(
        VoltageDrop(args.current,
            TotalResistance(WIRE_GAUGES[k].res, TotalDistance(args.distance))),
        args.voltage)

\* a > b and a = b on f64: false when either side is NaN.
FGt(a, b) == a.cls # "nan" /\ b.cls # "nan" /\ ~FLe(a, b)

FEq(a, b) == FLe(a, b) /\ FLe(b, a)

\* What standard output holds of each kind.
Printed(kind) == {i \in 1..Len(stdout) : stdout[i].kind = kind}

\* Some requested identifier is not a gauge number of the table.
HasUnknownGauge ==
    /\ args.gauges.some
    /\ \E j \in 1..Len(args.gauges.list) :
          \A k \in 1..NumGauges : WIRE_GAUGES[k].num # args.gauges.list[j]

\* The scenario of the defaults: 120 V, 20 A, 50 ft, 3 %, no filter.
DefaultScenario ==
    /\ args.voltage = Lit(120, 1)
    /\ args.current = Lit(20, 1)
    /\ args.distance = Lit(50, 1)
    /\ args.max_drop = Lit(3, 1)
    /\ ~args.gauges.some

\* ------------------------------------------------------------------ claims

\* C1: in every run that passes gauge validation, the recommended gauge, if
\* any, is the first considered gauge in table order whose drop percentage
\* is <= max_drop: every considered gauge before it fails the threshold, and
\* once set the recommendation is never replaced by a later passing gauge.
C1_FirstPassingKept ==
    /\ [](Validated /\ recommended.some =>
            \E k \in ConsideredIdx :
                /\ k < gi
                /\ recommended.name = WIRE_GAUGES[k].name
                /\ recommended.pct = DropOf(k)
                /\ FLe(DropOf(k), args.max_drop)
                /\ \A j \in ConsideredIdx : j < k => ~FLe(DropOf(j), args.max_drop))
    /\ [][recommended.some => recommended' = recommended]_vars

\* C1 witness: the loop has gone past a second passing gauge and the report
\* recommends the first one, which considered failing gauges precede.
C1_Witness ==
    /\ pc = "done"
    /\ recommended.some
    /\ \E j, k, l \in ConsideredIdx :
          /\ j < k /\ k < l
          /\ ~FLe(DropOf(j), args.max_drop)
          /\ FLe(DropOf(k), args.max_drop)
          /\ FLe(DropOf(l), args.max_drop)
          /\ recommended.name = WIRE_GAUGES[k].name

\* C2: in a finished report, when every considered gauge exceeds max_drop
\* the warning is printed and no recommendation; when some considered gauge
\* passes the recommendation is printed; exactly one of the two is printed.
C2_RecommendationOrWarning ==
    pc = "done" =>
        /\ exit_code = 0
        /\ ((\A k \in ConsideredIdx : FGt(DropOf(k), args.max_drop)) =>
                Printed("warning") # {} /\ Printed("recommended") = {})
        /\ ((\E k \in ConsideredIdx : FLe(DropOf(k), args.max_drop)) =>
                Printed("recommended") # {} /\ Printed("warning") = {})
        /\ Cardinality(Printed("recommended") \cup Printed("warning")) = 1

\* C2 witness: a finished report on a filter whose gauges all exceed the
\* threshold, ending in the warning.
C2_Witness ==
    /\ pc = "done"
    /\ args.gauges.some
    /\ \A k \in ConsideredIdx : FGt(DropOf(k), args.max_drop)
    /\ Printed("warning") # {}
    /\ Printed("recommended") = {}

\* C3: a --gauges list holding an identifier that is not in the table,
\* wherever it is, ends the process with status 1 and nothing on standard
\* output; a report is printed, and status 0 returned, only when every
\* requested identifier is in the table.
C3_UnknownGaugeNoReport ==
    /\ (HasUnknownGauge =>
            /\ pc \in {"validate", "exited"}
            /\ pc = "validate" =>
                  \E j \in vi..Len(args.gauges.list) :
                      \A k \in 1..NumGauges : WIRE_GAUGES[k].num # args.gauges.list[j]
            /\ stdout = << >>
            /\ table = << >>
            /\ exit_code # 0)
    /\ (pc = "exited" => HasUnknownGauge /\ exit_code = 1 /\ Len(stderr) = 1)
    /\ (exit_code = 1 => stdout = << >>)
    /\ (stdout # << >> \/ exit_code = 0 => ~HasUnknownGauge)

\* C3 witness: the process has exited with status 1 on a list whose unknown
\* identifier sits between two gauges of the table.
C3_Witness ==
    /\ pc = "exited"
    /\ exit_code = 1
    /\ stdout = << >>
    /\ Len(args.gauges.list) = 3
    /\ args.gauges.list[1] = 12
    /\ args.gauges.list[2] = 99
    /\ args.gauges.list[3] = 10

\* C4: with a valid filter the table has exactly one row for each distinct
\* requested identifier and no other, in table order, whatever the order or
\* repetition in the list; without a filter one row per gauge of the table,
\* in table order.
C4_RowsInTableOrder ==
    LoopOver =>
        LET wanted == IF args.gauges.some
                      THEN {k \in 1..NumGauges :
                              \E j \in 1..Len(args.gauges.list) :
                                  args.gauges.list[j] = WIRE_GAUGES[k].num}
                      ELSE 1..NumGauges
            ids    == {args.gauges.list[j] : j \in 1..Len(args.gauges.list)}
        IN  /\ Len(table) = Cardinality(wanted)
            /\ args.gauges.some => Len(table) = Cardinality(ids)
            /\ \A r \in 1..Len(table) :
                  \E k \in wanted :
                      /\ Cardinality({m \in wanted : m <= k}) = r
                      /\ table[r].name = WIRE_GAUGES[k].name
            /\ \A i \in Printed("table") : stdout[i].rows = table

\* C4 witness: a finished report on a filter that repeats an identifier and
\* lists a thicker gauge before a thinner one.
C4_Witness ==
    /\ pc = "done"
    /\ args.gauges.some
    /\ \E i, j \in 1..Len(args.gauges.list) :
          i < j /\ args.gauges.list[i] = args.gauges.list[j]
    /\ \E i, j \in 1..Len(args.gauges.list) :
          i < j /\ args.gauges.list[i] < args.gauges.list[j]
    /\ Len(table) = 2

\* C5 as stated: --gauges 10,12,14 gives exactly three rows, 10 AWG before
\* 12 AWG before 14 AWG.
C5_AsStated ==
    pc = "done" /\ args.gauges.some /\ args.gauges.list = <<10, 12, 14>> =>
        /\ Len(table) = 3
        /\ table[1].name = "10 AWG"
        /\ table[2].name = "12 AWG"
        /\ table[3].name = "14 AWG"

\* C5 amended: --gauges 10,12,14 gives exactly three rows, in table order,
\* which is 14 AWG before 12 AWG before 10 AWG.
C5_ThreeRowsThinToThick ==
    LoopOver /\ args.gauges.some /\ args.gauges.list = <<10, 12, 14>> =>
        /\ Len(table) = 3
        /\ table[1].name = "14 AWG"
        /\ table[2].name = "12 AWG"
        /\ table[3].name = "10 AWG"
        /\ \A i \in Printed("table") : Len(stdout[i].rows) = 3

\* C5 witness: the report of --gauges 10,12,14 is finished.
C5_Witness ==
    /\ pc = "done"
    /\ args.gauges.some
    /\ args.gauges.list = <<10, 12, 14>>
    /\ Printed("table") # {}

\* C6 as stated: the recommended gauge is the thinnest gauge of the whole
\* table whose drop percentage is <= max_drop, filter or not.
C6_AsStated ==
    pc = "done" /\ recommended.some =>
        \E k \in 1..NumGauges :
            /\ recommended.name = WIRE_GAUGES[k].name
            /\ FLe(DropOf(k), args.max_drop)
            /\ \A j \in 1..NumGauges :
                  FLe(DropOf(j), args.max_drop) => FLe(WIRE_GAUGES[j].res, WIRE_GAUGES[k].res)

\* C6 amended: the recommended gauge is the thinnest (highest resistance)
\* of the considered gauges whose drop percentage is <= max_drop: of the
\* whole table without a filter, of the requested gauges with one.
C6_ThinnestConsidered ==
    pc = "done" /\ recommended.some =>
        \E k \in ConsideredIdx :
            /\ recommended.name = WIRE_GAUGES[k].name
            /\ FLe(DropOf(k), args.max_drop)
            /\ \A j \in ConsideredIdx :
                  FLe(DropOf(j), args.max_drop) => FLe(WIRE_GAUGES[j].res, WIRE_GAUGES[k].res)
            /\ \A i \in Printed("recommended") : stdout[i].gauge = WIRE_GAUGES[k].name

\* C6 witness: a filtered report recommends a gauge although a thinner
\* gauge outside the filter passes too.
C6_Witness ==
    /\ pc = "done"
    /\ args.gauges.some
    /\ recommended.some
    /\ \E k \in ConsideredIdx :
          /\ recommended.name = WIRE_GAUGES[k].name
          /\ \E j \in 1..(k - 1) : FLe(DropOf(j), args.max_drop)

\* C7 as stated: for any inputs the program accepts, the drop percentage
\* does not increase along the table: drop(g1) >= drop(g2) for g1 before g2
\* (read of the drop percentages that are numbers; the claim read of NaN
\* as well implies this one).
C7_AsStated ==
    Validated =>
        \A i, j \in ConsideredIdx :
            i < j /\ j < gi /\ DropOf(i).cls # "nan" /\ DropOf(j).cls # "nan"
                => FLe(DropOf(j), DropOf(i))

\* C7 amended: for voltage > 0, current >= 0 and distance >= 0, whenever
\* neither drop percentage is NaN, drop(g1) >= drop(g2) for g1 before g2 in
\* the table.
C7_MonotoneForNonNegativeInputs ==
    /\ Validated
    /\ FGt(args.voltage, Lit(0, 1))
    /\ FLe(Lit(0, 1), args.current)
    /\ FLe(Lit(0, 1), args.distance)
    =>  \A i, j \in ConsideredIdx :
            i < j /\ j < gi /\ DropOf(i).cls # "nan" /\ DropOf(j).cls # "nan"
                => FLe(DropOf(j), DropOf(i))

\* C7 witness: a full report on positive inputs whose drop percentages
\* differ between the thinnest and the thickest gauge.
C7_Witness ==
    /\ pc = "done"
    /\ ~args.gauges.some
    /\ FGt(args.voltage, Lit(0, 1))
    /\ FGt(args.current, Lit(0, 1))
    /\ FGt(args.distance, Lit(0, 1))
    /\ FGt(DropOf(1), DropOf(NumGauges))
    /\ FGt(DropOf(NumGauges), Lit(0, 1))

\* C8: for 120 V, 20 A, 50 ft, 3 % and no filter, total_distance is 100;
\* 12 AWG has total resistance 0.1588, voltage drop 3.176, drop percentage
\* about 2.6467 and passes; 14 AWG has 0.251, 5.02, about 4.1833 and fails;
\* every thinner gauge fails; the recommended gauge is 12 AWG.
C8_DefaultScenario ==
    DefaultScenario /\ LoopOver =>
        /\ total_distance = Lit(100, 1)
        /\ WIRE_GAUGES[9].num = 12 /\ WIRE_GAUGES[8].num = 14
        /\ table[9] = [name |-> "12 AWG",
                       resistance |-> [text |-> "num", neg |-> FALSE, units |-> 1588],
                       drop |-> [text |-> "num", neg |-> FALSE, units |-> 3176],
                       pct |-> [text |-> "num", neg |-> FALSE, units |-> 265],
                       status |-> "OK"]
        /\ table[8] = [name |-> "14 AWG",
                       resistance |-> [text |-> "num", neg |-> FALSE, units |-> 2510],
                       drop |-> [text |-> "num", neg |-> FALSE, units |-> 5020],
                       pct |-> [text |-> "num", neg |-> FALSE, units |-> 418],
                       status |-> "Too much drop"]
        /\ Fmt(DropOf(9), 4).units = 26467
        /\ Fmt(DropOf(8), 4).units = 41833
        /\ \A r \in 1..8 : table[r].status = "Too much drop"
        /\ recommended.some
        /\ recommended.name = "12 AWG"
        /\ recommended.drop = Lit(3176, 1000)

\* C8 witness: the report of the default scenario is finished.
C8_Witness ==
    /\ DefaultScenario
    /\ pc = "done"
    /\ Len(table) = NumGauges
    /\ \E i \in Printed("recommended") : stdout[i].gauge = "12 AWG"

\* C9 as stated: a row whose drop percentage equals max_drop is marked OK,
\* and a row is marked failing only when its drop percentage is strictly
\* greater than max_drop.
C9_AsStated ==
    Validated =>
        \A r \in 1..Len(table) :
            /\ FEq(DropOf(RowIdx(r)), args.max_drop) => table[r].status = "OK"
            /\ table[r].status = "Too much drop" => FGt(DropOf(RowIdx(r)), args.max_drop)

\* C9 amended: a row whose drop percentage equals max_drop is marked OK and
\* is recommended when no earlier row passes; a row is marked failing
\* exactly when drop_percent <= max_drop is false, that is when the drop
\* percentage is strictly greater than max_drop or either of the two is NaN.
C9_InclusiveThreshold ==
    Validated =>
        \A r \in 1..Len(table) :
            LET d == DropOf(RowIdx(r))
            IN  /\ FEq(d, args.max_drop) =>
                      /\ table[r].status = "OK"
                      /\ recommended.some
                      /\ (\A q \in 1..(r - 1) : table[q].status # "OK")
                            => recommended.name = table[r].name
                /\ table[r].status = "Too much drop" <=>
                      \/ FGt(d, args.max_drop)
                      \/ d.cls = "nan"
                      \/ args.max_drop.cls = "nan"
                /\ table[r].status \in {"OK", "Too much drop"}

\* C9 witness: a finished report recommends a gauge whose drop percentage
\* is exactly max_drop.
C9_Witness ==
    /\ pc = "done"
    /\ recommended.some
    /\ FEq(recommended.pct, args.max_drop)
    /\ table[1].status = "OK"
    /\ FEq(DropOf(RowIdx(1)), args.max_drop)

\* C10: the gauge table is a constant; its identifiers are pairwise
\* distinct and its resistances strictly decrease along it (each entry's
\* resistance is below its predecessor's), from 28 AWG (highest) to
\* 0000 AWG (lowest), so that table order is thin to thick.
C10_TableStrictlyDecreasing ==
    /\ Len(WIRE_GAUGES) = 19
    /\ Cardinality({WIRE_GAUGES[i].num : i \in 1..NumGauges}) = NumGauges
    /\ \A i \in 1..(NumGauges - 1) :
          /\ FLe(WIRE_GAUGES[i + 1].res, WIRE_GAUGES[i].res)
          /\ ~FLe(WIRE_GAUGES[i].res, WIRE_GAUGES[i + 1].res)
    /\ WIRE_GAUGES[1].name = "28 AWG"
    /\ WIRE_GAUGES[NumGauges].name = "0000 AWG"
    /\ LoopOver /\ ~args.gauges.some =>
          \A r \in 1..Len(table) : table[r].name = WIRE_GAUGES[r].name

\* C10 witness: the loop has walked the whole table, from 28 AWG to 0000 AWG.
C10_Witness ==
    /\ pc = "done"
    /\ Len(table) = NumGauges
    /\ table[1].name = "28 AWG"
    /\ table[NumGauges].name = "0000 AWG"

====
